---- MODULE Spec2Model ----
(***************************************************************************)
(* qr-linker: short-identifier allocation (utils.GenerateUniqueHash), the  *)
(* urls table (database.DB) and the HTTP handlers that drive them          *)
(* (shortenHandler, redirectHandler, updateHandler, qrCodeHandler,         *)
(* homeHandler).  A second specification, StoreSpec, calls the methods of  *)
(* database.DB directly.                                                   *)
(*                                                                         *)
(* Every request is served by its own goroutine; the only shared state is  *)
(* the SQLite table.  A handler is cut into one action per statement that  *)
(* touches the table, so that every interleaving of concurrent requests is *)
(* explored.                                                               *)
(***************************************************************************)
EXTENDS Integers, Sequences, FiniteSets, TLC

VARIABLES
    urls,      \* the rows of table urls, in insertion order
    now,       \* time.Now(), as a logical clock
    pc,        \* per request goroutine: where its handler stands
    loc,       \* per request goroutine: the handler's local variables
    resp,      \* per request goroutine: the HTTP response written
    nreq,      \* number of requests accepted so far
    served,    \* history: number of 302 redirects issued, per short hash
    lost,      \* history: number of those whose IncrementClicks failed
    prior,     \* history: clicks of each row when the server started
    origin,    \* history: the URL each short hash was created for
    edited,    \* history: the short hashes whose target an update replaced
    ret,       \* StoreSpec: the last call of a database.DB method and its result
    users,     \* the rows of table users, in insertion order
    cancelled  \* history: the last request whose client went away, and where it stood

vars == <<urls, now, pc, loc, resp, nreq, served, lost, prior, origin, edited, ret,
          users, cancelled>>

-----------------------------------------------------------------------------
(* Bounds of the model *)

MaxRequests == 3     \* requests accepted in one behaviour
MaxStoreCalls == 2   \* StoreSpec: calls of database.DB methods in one behaviour

\* the goroutines net/http serves requests on, concurrently
Procs == {"g1", "g2"}

\* values rand.Read may fill a buffer with (every byte of a buffer alike)
ByteVals == {0, 255}

\* form value "url" of POST /shorten, and "new_url" of POST /update
FormURLs == {"", "b.io"}
NewURLs == {"http://c.io"}

-----------------------------------------------------------------------------
(* utils/hash.go *)

hashLength == 6
maxRetries == 5

\* number of escalated lengths: hashLength+1 .. hashLength+4
escalation == 4

Alphabet == "ABCDEFGHIJKLMNOPQRSTUVWXYZabcdefghijklmnopqrstuvwxyz0123456789-_"

Char(n) == SubSeq(Alphabet, n + 1, n + 1)

\* one group of at most three bytes, padded with '=' to four characters
EncodeGroup(b) ==
    IF Len(b) = 3
    THEN Char(b[1] \div 4) \o Char((b[1] % 4) * 16 + b[2] \div 16)
         \o Char((b[2] % 16) * 4 + b[3] \div 64) \o Char(b[3] % 64)
    ELSE IF Len(b) = 2
    THEN Char(b[1] \div 4) \o Char((b[1] % 4) * 16 + b[2] \div 16)
         \o Char((b[2] % 16) * 4) \o "="
    ELSE Char(b[1] \div 4) \o Char((b[1] % 4) * 16) \o "=="

RECURSIVE EncodeToString(_)
EncodeToString(b) ==
    IF Len(b) = 0 THEN ""
    ELSE IF Len(b) <= 3 THEN EncodeGroup(b)
    ELSE EncodeGroup(SubSeq(b, 1, 3)) \o EncodeToString(SubSeq(b, 4, Len(b)))

RECURSIVE TrimRight(_, _)
TrimRight(s, c) ==
    IF Len(s) > 0 /\ SubSeq(s, Len(s), Len(s)) = c
    THEN TrimRight(SubSeq(s, 1, Len(s) - 1), c)
    ELSE s

\* the outcomes of rand.Read on a buffer of n bytes: an error, or the buffer
RandRead(n) ==
    {[err |-> TRUE, bytes |-> <<>>]}
        \cup {[err |-> FALSE, bytes |-> [k \in 1..n |-> v]] : v \in ByteVals}

\* without the cut hash[:length]
HashOfBytesUncut(bytes, length) == TrimRight(EncodeToString(bytes), "=")

\* encode, trim the padding, cut to length
HashOfBytes(bytes, length) ==
    LET hash == TrimRight(EncodeToString(bytes), "=")
    IN  IF Len(hash) > length THEN SubSeq(hash, 1, length) ELSE hash

\* GenerateShortHash: (hash, err)
GenerateShortHash ==
    {[err |-> r.err, hash |-> IF r.err THEN "" ELSE HashOfBytes(r.bytes, hashLength)]
        : r \in RandRead(hashLength)}

\* the candidate generation inlined in the escalation loop
GenerateAtLength(length) ==
    {[err |-> r.err, hash |-> IF r.err THEN "" ELSE HashOfBytes(r.bytes, length)]
        : r \in RandRead(length)}

-----------------------------------------------------------------------------
(* database/db.go *)

\* the zero value of struct URL
NoURL == [id |-> 0, full_url |-> "", short_hash |-> "", created_at |-> 0, clicks |-> 0]

RowsWithHash(shortHash) == {k \in 1..Len(urls) : urls[k].short_hash = shortHash}

UniqueViolationOff(shortHash) == FALSE

\* short_hash TEXT NOT NULL UNIQUE: the insert of shortHash is refused
UniqueViolation(shortHash) == RowsWithHash(shortHash) # {}

\* id INTEGER PRIMARY KEY AUTOINCREMENT (no row is ever deleted)
NextID == Len(urls) + 1

\* INSERT OR IGNORE
CreateURLIgnoreConflict(fullURL, shortHash) ==
    {[err |-> "storage", table |-> urls, url |-> NoURL]}
    \cup
    IF UniqueViolation(shortHash)
    THEN {[err |-> "nil", table |-> urls, url |-> NoURL]}
    ELSE LET row == [id |-> NextID, full_url |-> fullURL, short_hash |-> shortHash,
                     created_at |-> now, clicks |-> 0]
         IN  {[err |-> "nil", table |-> Append(urls, row), url |-> row]}

\* the two placeholders bound in the wrong order
CreateURLSwapped(fullURL, shortHash) ==
    {[err |-> "storage", table |-> urls, url |-> NoURL]}
    \cup
    IF UniqueViolation(fullURL)
    THEN {[err |-> "constraint", table |-> urls, url |-> NoURL]}
    ELSE LET row == [id |-> NextID, full_url |-> shortHash, short_hash |-> fullURL,
                     created_at |-> now, clicks |-> 0]
         IN  {[err |-> "nil", table |-> Append(urls, row), url |-> row]}

\* INSERT OR REPLACE: the row in the way is deleted, the new one gets a new id
CreateURLReplace(fullURL, shortHash) ==
    {[err |-> "storage", table |-> urls, url |-> NoURL]}
    \cup
    LET kept == SelectSeq(urls, LAMBDA r : r.short_hash # shortHash)
        row == [id |-> NextID, full_url |-> fullURL, short_hash |-> shortHash,
                created_at |-> now, clicks |-> 0]
    IN  {[err |-> "nil", table |-> Append(kept, row), url |-> row]}

\* CreateURL: the outcomes of the INSERT.  err is "nil", "constraint" (the
\* UNIQUE index refused the row) or "storage" (any other failure of Exec).
CreateURL(fullURL, shortHash) ==
    {[err |-> "storage", table |-> urls, url |-> NoURL]}
    \cup
    IF UniqueViolation(shortHash)
    THEN {[err |-> "constraint", table |-> urls, url |-> NoURL]}
    ELSE LET row == [id |-> NextID, full_url |-> fullURL, short_hash |-> shortHash,
                     created_at |-> now, clicks |-> 0]
         IN  {[err |-> "nil", table |-> Append(urls, row), url |-> row]}

GetURLByHashAnyRow(shortHash) ==
    {[err |-> "storage", url |-> NoURL]}
    \cup
    IF RowsWithHash(shortHash) = {}
    THEN {[err |-> "norows", url |-> NoURL]}
    ELSE {[err |-> "nil", url |-> urls[k]] : k \in 1..Len(urls)}

GetURLByHashNoErr(shortHash) ==
    {[err |-> "storage", url |-> NoURL]}
    \cup
    IF RowsWithHash(shortHash) = {}
    THEN {[err |-> "nil", url |-> NoURL]}
    ELSE {[err |-> "nil", url |-> urls[k]] : k \in RowsWithHash(shortHash)}

\* GetURLByHash: the row, sql.ErrNoRows, or a failure of the query
GetURLByHash(shortHash) ==
    {[err |-> "storage", url |-> NoURL]}
    \cup
    IF RowsWithHash(shortHash) = {}
    THEN {[err |-> "norows", url |-> NoURL]}
    ELSE {[err |-> "nil", url |-> urls[k]] : k \in RowsWithHash(shortHash)}

ClicksIncrementedEverywhere(shortHash) ==
    [k \in 1..Len(urls) |-> [urls[k] EXCEPT !.clicks = @ + 1]]

\* WHERE short_hash LIKE ? || '%'
ClicksIncrementedLike(shortHash) ==
    [k \in 1..Len(urls) |->
        IF /\ Len(urls[k].short_hash) >= Len(shortHash)
           /\ SubSeq(urls[k].short_hash, 1, Len(shortHash)) = shortHash
        THEN [urls[k] EXCEPT !.clicks = @ + 1]
        ELSE urls[k]]

\* UPDATE urls SET clicks = clicks + 1 WHERE short_hash = ?
ClicksIncremented(shortHash) ==
    [k \in 1..Len(urls) |->
        IF urls[k].short_hash = shortHash
        THEN [urls[k] EXCEPT !.clicks = @ + 1]
        ELSE urls[k]]

\* an error when RowsAffected() is 0
IncrementClicksChecked(shortHash) ==
    {[err |-> "storage", table |-> urls],
     [err |-> IF RowsWithHash(shortHash) = {} THEN "norows" ELSE "nil",
      table |-> ClicksIncremented(shortHash)]}

\* IncrementClicks: one atomic statement, or a failure that changes nothing
IncrementClicks(shortHash) ==
    {[err |-> "storage", table |-> urls],
     [err |-> "nil", table |-> ClicksIncremented(shortHash)]}

\* CheckHashExists: (exists, err); exists is false when Scan fails
CheckHashExists(shortHash) ==
    {[exists |-> FALSE, err |-> "storage"],
     [exists |-> RowsWithHash(shortHash) # {}, err |-> "nil"]}

listLimit == 100

Min(a, b) == IF a < b THEN a ELSE b

\* ORDER BY created_at DESC says nothing about rows of equal created_at:
\* they come out in rowid order or in its reverse
TieOrders == {"rowid", "reverse"}

\* row j is placed before row k
Before(j, k, tie) ==
    \/ urls[j].created_at > urls[k].created_at
    \/ /\ urls[j].created_at = urls[k].created_at
       /\ IF tie = "rowid" THEN j < k ELSE j > k

\* the row numbers s in the order of Before
RECURSIVE Ordered(_, _)
Ordered(s, tie) ==
    IF Len(s) <= 1
    THEN s
    ELSE LET k == s[(Len(s) + 1) \div 2]
         IN  Ordered(SelectSeq(s, LAMBDA j : Before(j, k, tie)), tie)
             \o <<k>>
             \o Ordered(SelectSeq(s, LAMBDA j : Before(k, j, tie)), tie)

\* ORDER BY created_at DESC LIMIT 100
Selected(tie) ==
    LET order == Ordered([k \in 1..Len(urls) |-> k], tie)
    IN  [i \in 1..Min(Len(urls), listLimit) |-> urls[order[i]]]

\* the number of rows after which rows.Next() returns false: all n of them,
\* or fewer when stepping the statement fails (the first step runs the query)
ReadUpTo(n) == {0, n \div 2, n}

\* GetAllURLs: an error of Query or Scan, or the rows appended until
\* rows.Next() returned false; rows.Err() is not consulted
GetAllURLs ==
    {[err |-> "storage", urls |-> <<>>]}
    \cup
    {[err |-> "nil", urls |-> SubSeq(s, 1, m)] :
        s \in {Selected(tie) : tie \in TieOrders},
        m \in ReadUpTo(Min(Len(urls), listLimit))}

\* UpdateURL: UPDATE urls SET full_url = ? WHERE short_hash = ?
UpdateURL(shortHash, newURL) ==
    {[err |-> "storage", table |-> urls],
     [err |-> "nil",
      table |-> [k \in 1..Len(urls) |->
                    IF urls[k].short_hash = shortHash
                    THEN [urls[k] EXCEPT !.full_url = newURL]
                    ELSE urls[k]]]}

-----------------------------------------------------------------------------
(* main.go: helpers *)

HasPrefix(s, prefix) ==
    Len(s) >= Len(prefix) /\ SubSeq(s, 1, Len(prefix)) = prefix

\* "Add protocol if missing"
WithScheme(u) ==
    IF ~HasPrefix(u, "http://") /\ ~HasPrefix(u, "https://")
    THEN "https://" \o u
    ELSE u

NoResp == [status |-> 0, location |-> "", cookie |-> "none"]
Redirect(location, status) == [status |-> status, location |-> location, cookie |-> "none"]
Error(status) == [status |-> status, location |-> "", cookie |-> "none"]

NoCall == [op |-> "none", arg |-> "", err |-> "nil", rows |-> <<>>, exists |-> FALSE]

LocInit ==
    [handler |-> "none", authenticated |-> FALSE, fullURL |-> "", shortHash |-> "",
     i |-> 0, length |-> 0, checks |-> <<>>, url |-> NoURL, err |-> "nil",
     randErr |-> FALSE]

-----------------------------------------------------------------------------
(* auth.go: the session of a request is what its cookie decodes to *)

\* no cookie, a cookie that does not decode, one saved by SetUserSession and
\* one saved by ClearSession
Sessions ==
    {[err |-> FALSE, authenticated |-> "unset"],
     [err |-> TRUE, authenticated |-> "unset"],
     [err |-> FALSE, authenticated |-> "true"],
     [err |-> FALSE, authenticated |-> "false"]}

\* auth, ok := session.Values["authenticated"].(bool); return ok && auth
IsAuthenticated(session) == ~session.err /\ session.authenticated = "true"

\* what IsAuthenticated(r) can return for a request
Authenticated == {IsAuthenticated(session) : session \in Sessions}

RequireAuthLetsPass(authenticated) == FALSE

\* RequireAuth: if !IsAuthenticated(r), redirect to /login and return
RequireAuthRefuses(authenticated) == ~authenticated

\* the short hashes GenerateUniqueHash can return
Candidates ==
    {""} \cup UNION {{g.hash : g \in GenerateAtLength(n)}
                        : n \in hashLength..(hashLength + escalation)}

\* the <hash> of a request path /<hash>, and form value "short_hash"
PathHashes == {h \in Candidates : Len(h) = hashLength} \cup {"doesnotexist"}

\* history helper: a counter indexed by short hash
Bump(f, h) == [f EXCEPT ![h] = @ + 1]

-----------------------------------------------------------------------------
(* The state at start-up: NewDB opens a database file that earlier runs   *)
(* may have filled.  The persisted tables considered are the empty one    *)
(* and the one that escalation + 1 creates leave when every random buffer *)
(* was zero (one row per length), the row of id k resolved k - 1 times.   *)

Zeros(n) == [k \in 1..n |-> 0]

PersistedTable(n) ==
    [k \in 1..n |->
        [id |-> k, full_url |-> "https://a.io",
         short_hash |-> HashOfBytes(Zeros(hashLength + k - 1), hashLength + k - 1),
         created_at |-> k, clicks |-> k - 1]]

Init ==
    /\ \E n \in {0, escalation + 1} :
          /\ urls = PersistedTable(n)
          /\ now = n + 1
          /\ prior = [h \in Candidates \cup PathHashes |->
                        IF \E k \in 1..n : PersistedTable(n)[k].short_hash = h
                        THEN CHOOSE c \in 0..n :
                                \E k \in 1..n : /\ PersistedTable(n)[k].short_hash = h
                                                 /\ PersistedTable(n)[k].clicks = c
                        ELSE 0]
    /\ pc = [p \in Procs |-> "idle"]
    /\ loc = [p \in Procs |-> LocInit]
    /\ resp = [p \in Procs |-> NoResp]
    /\ nreq = 0
    /\ served = [h \in Candidates \cup PathHashes |-> 0]
    /\ lost = [h \in Candidates \cup PathHashes |-> 0]
    /\ origin = [h \in Candidates \cup PathHashes |->
                    IF \E k \in 1..Len(urls) : urls[k].short_hash = h
                    THEN "https://a.io" ELSE ""]
    /\ edited = {}
    /\ ret = NoCall
    /\ users = <<>>
    /\ cancelled = {}

-----------------------------------------------------------------------------
(* net/http starts a goroutine per request.  The model has one slot per    *)
(* request in flight; a slot keeps the answer of its last request until it *)
(* is taken again, and a new request takes the first slot that is free.    *)

Answered(p) == pc[p] \in {"idle", "done"}

Free(p) ==
    /\ Answered(p)
    /\ nreq < MaxRequests
    /\ p = "g1" \/ ~Answered("g1")

\* the handler returns after writing response r; of its locals the history
\* keeps the short hash, the existence checks made, the last error and
\* whether rand.Read failed
Finish(p, l, r) ==
    /\ pc' = [pc EXCEPT ![p] = "done"]
    /\ loc' = [loc EXCEPT ![p] = [LocInit EXCEPT !.handler = l.handler,
                                                 !.authenticated = l.authenticated,
                                                 !.shortHash = l.shortHash,
                                                 !.checks = l.checks,
                                                 !.randErr = l.randErr,
                                                 !.err = l.err]]
    /\ resp' = [resp EXCEPT ![p] = r]

Goto(p, label, l) ==
    /\ pc' = [pc EXCEPT ![p] = label]
    /\ loc' = [loc EXCEPT ![p] = l]
    /\ resp' = [resp EXCEPT ![p] = NoResp]

-----------------------------------------------------------------------------
(* POST /shorten: auth.RequireAuth(shortenHandler) *)

\* RequireAuth and the handler down to the call of GenerateUniqueHash
ShortenRequest(p) ==
    /\ Free(p)
    /\ nreq' = nreq + 1
    /\ UNCHANGED <<users, cancelled, ret, urls, now, served, lost, prior, origin, edited>>
    /\ \E authenticated \in Authenticated :
       LET l == [LocInit EXCEPT !.handler = "shorten", !.authenticated = authenticated]
       IN  IF RequireAuthRefuses(authenticated)
           THEN Finish(p, l, Redirect("/login", 303))
           ELSE \E method \in {"GET", "POST"} :
           IF method # "POST"
           THEN Finish(p, l, Error(405))
           ELSE \E formOK \in BOOLEAN :
           IF ~formOK
           THEN Finish(p, l, Redirect("/?error=Invalid+form+data", 303))
           ELSE \E url \in FormURLs :
           IF url = ""
           THEN Finish(p, l, Redirect("/?error=URL+is+required", 303))
           ELSE Goto(p, "generate", [l EXCEPT !.fullURL = WithScheme(url)])

\* GenerateUniqueHash failed: shortenHandler answers and returns
GenerateFailed(p, l, e) ==
    Finish(p, [l EXCEPT !.err = e],
           Redirect("/?error=Failed+to+generate+short+URL", 303))

RandFailedIgnored(g) == FALSE

\* if err != nil after rand.Read: return "", err
RandFailed(g) == g.err

CheckFailedIgnored(c) == FALSE

\* if err != nil after checkExists: return "", err
CheckFailed(c) == c.err # "nil"

DefaultLoopOneMore(i) == i < maxRetries

\* the first loop goes on after a collision at attempt i
DefaultLoopContinues(i) == i + 1 < maxRetries

EscalationLoopOneLess(length) == length + 1 < hashLength + escalation

\* the second loop goes on after a collision at this length
EscalationLoopContinues(length) == length + 1 <= hashLength + escalation

\* one iteration of the loop over i < maxRetries
DefaultAttempt(p) ==
    /\ pc[p] = "generate"
    /\ UNCHANGED <<users, cancelled, ret, urls, now, nreq, served, lost, prior, origin, edited>>
    /\ \E g \in GenerateShortHash :
          IF RandFailed(g)
          THEN GenerateFailed(p, [loc[p] EXCEPT !.randErr = g.err], "random")
          ELSE \E c \in CheckHashExists(g.hash) :
                  LET l == [loc[p] EXCEPT
                              !.randErr = g.err,
                              !.checks = Append(@, [length |-> Len(g.hash),
                                                    exists |-> c.exists,
                                                    err |-> c.err])]
                  IN  IF CheckFailed(c)
                      THEN GenerateFailed(p, l, c.err)
                      ELSE IF ~c.exists
                      THEN Goto(p, "insert", [l EXCEPT !.shortHash = g.hash])
                      ELSE IF DefaultLoopContinues(loc[p].i)
                      THEN Goto(p, "generate", [l EXCEPT !.i = @ + 1])
                      ELSE Goto(p, "escalate",
                                [l EXCEPT !.i = @ + 1, !.length = hashLength + 1])

\* one iteration of the loop over length, and the return after its last one
EscalatedAttempt(p) ==
    /\ pc[p] = "escalate"
    /\ UNCHANGED <<users, cancelled, ret, urls, now, nreq, served, lost, prior, origin, edited>>
    /\ \E g \in GenerateAtLength(loc[p].length) :
          IF RandFailed(g)
          THEN GenerateFailed(p, [loc[p] EXCEPT !.randErr = g.err], "random")
          ELSE \E c \in CheckHashExists(g.hash) :
                  LET l == [loc[p] EXCEPT
                              !.randErr = g.err,
                              !.checks = Append(@, [length |-> Len(g.hash),
                                                    exists |-> c.exists,
                                                    err |-> c.err])]
                  IN  IF CheckFailed(c)
                      THEN GenerateFailed(p, l, c.err)
                      ELSE IF ~c.exists
                      THEN Goto(p, "insert", [l EXCEPT !.shortHash = g.hash])
                      ELSE IF EscalationLoopContinues(loc[p].length)
                      THEN Goto(p, "escalate", [l EXCEPT !.length = @ + 1])
                      ELSE \* return "", nil
                           Goto(p, "insert", [l EXCEPT !.length = @ + 1,
                                                       !.shortHash = ""])

\* db.CreateURL(fullURL, shortHash) and the answer of shortenHandler
SaveURL(p) ==
    /\ pc[p] = "insert"
    /\ UNCHANGED <<users, cancelled, ret, nreq, served, lost, prior, edited>>
    /\ \E c \in CreateURL(loc[p].fullURL, loc[p].shortHash) :
          /\ urls' = c.table
          /\ origin' = IF c.err = "nil"
                       THEN [origin EXCEPT ![loc[p].shortHash] = loc[p].fullURL]
                       ELSE origin
          /\ now' = IF c.err = "nil" THEN now + 1 ELSE now
          /\ IF c.err # "nil"
             THEN Finish(p, [loc[p] EXCEPT !.err = c.err],
                         Redirect("/?error=Failed+to+save+URL", 303))
             ELSE Finish(p, loc[p],
                         Redirect("/?success=" \o loc[p].shortHash, 303))

-----------------------------------------------------------------------------
(* GET /<hash>: publicRouteHandler, redirectHandler *)

\* the path is not "/": the lookup of the short hash
RedirectRequest(p) ==
    /\ Free(p)
    /\ nreq' = nreq + 1
    /\ UNCHANGED <<users, cancelled, ret, urls, now, served, lost, prior, origin, edited>>
    /\ \E shortHash \in PathHashes :
          LET l == [LocInit EXCEPT !.handler = "redirect", !.shortHash = shortHash]
          IN  \E g \in GetURLByHash(shortHash) :
                 IF g.err # "nil"
                 THEN Finish(p, [l EXCEPT !.err = g.err], Error(404))
                 ELSE Goto(p, "clicks", [l EXCEPT !.url = g.url])

RedirectAnswerOrFail(err, url) ==
    IF err # "nil" THEN Error(500) ELSE Redirect(url.full_url, 302)

\* a failed increment is logged; the redirect to url.FullURL is written anyway
RedirectAnswer(err, url) == Redirect(url.full_url, 302)

\* db.IncrementClicks(shortHash), then the redirect to url.FullURL
RedirectClicks(p) ==
    /\ pc[p] = "clicks"
    /\ UNCHANGED <<users, cancelled, ret, now, nreq, prior, origin, edited>>
    /\ \E c \in IncrementClicks(loc[p].shortHash) :
          /\ urls' = c.table
          /\ served' = Bump(served, loc[p].shortHash)
          /\ lost' = IF c.err # "nil" THEN Bump(lost, loc[p].shortHash) ELSE lost
          /\ Finish(p, [loc[p] EXCEPT !.err = c.err],
                    RedirectAnswer(c.err, loc[p].url))

-----------------------------------------------------------------------------
(* POST /update: auth.RequireAuth(updateHandler) *)

\* RequireAuth and the handler down to "Check if URL exists"
UpdateRequest(p) ==
    /\ Free(p)
    /\ nreq' = nreq + 1
    /\ UNCHANGED <<users, cancelled, ret, urls, now, served, lost, prior, origin, edited>>
    /\ \E authenticated \in Authenticated :
       LET l == [LocInit EXCEPT !.handler = "update", !.authenticated = authenticated]
       IN  IF RequireAuthRefuses(authenticated)
           THEN Finish(p, l, Redirect("/login", 303))
           ELSE \E method \in {"GET", "POST"} :
           IF method # "POST"
           THEN Finish(p, l, Error(405))
           ELSE \E formOK \in BOOLEAN :
           IF ~formOK
           THEN Finish(p, l, Error(400))
           ELSE \E shortHash \in PathHashes \cup {""} :
           IF shortHash = ""
           THEN Finish(p, l, Error(400))
           ELSE \E newURL \in NewURLs \cup {""} :
           IF newURL = ""
           THEN Finish(p, l, Error(400))
           ELSE \E g \in GetURLByHash(shortHash) :
                   IF g.err # "nil"
                   THEN Finish(p, [l EXCEPT !.shortHash = shortHash, !.err = g.err],
                               Error(404))
                   ELSE Goto(p, "update", [l EXCEPT !.shortHash = shortHash,
                                                    !.fullURL = WithScheme(newURL)])

\* db.UpdateURL(shortHash, newURL) and the answer
UpdateSave(p) ==
    /\ pc[p] = "update"
    /\ UNCHANGED <<users, cancelled, ret, now, nreq, served, lost, prior, origin>>
    /\ \E u \in UpdateURL(loc[p].shortHash, loc[p].fullURL) :
          /\ urls' = u.table
          /\ edited' = IF u.err = "nil" THEN edited \cup {loc[p].shortHash} ELSE edited
          /\ IF u.err # "nil"
             THEN Finish(p, [loc[p] EXCEPT !.err = u.err], Error(500))
             ELSE Finish(p, loc[p], Error(200))

-----------------------------------------------------------------------------
(* GET /qr/<hash>: qrCodeHandler, a public route *)

\* the lookup, then the PNG of baseURL/<hash>; qrcode.New and PNG can fail
QRRequest(p) ==
    /\ Free(p)
    /\ nreq' = nreq + 1
    /\ UNCHANGED <<users, cancelled, ret, urls, now, served, lost, prior, origin, edited>>
    /\ \E shortHash \in PathHashes \cup {""} :
          LET l == [LocInit EXCEPT !.handler = "qr", !.shortHash = shortHash]
          IN  IF shortHash = ""
              THEN Finish(p, l, Error(404))
              ELSE \E g \in GetURLByHash(shortHash) :
                      IF g.err # "nil"
                      THEN Finish(p, [l EXCEPT !.err = g.err], Error(404))
                      ELSE \E encoded \in BOOLEAN :
                              IF ~encoded
                              THEN Finish(p, [l EXCEPT !.err = "qrcode"], Error(500))
                              ELSE Finish(p, l, Error(200))

-----------------------------------------------------------------------------
(* GET /: publicRouteHandler, homeHandler *)

\* the page lists what GetAllURLs returned, or nothing when it failed
HomeRequest(p) ==
    /\ Free(p)
    /\ nreq' = nreq + 1
    /\ UNCHANGED <<users, cancelled, ret, urls, now, served, lost, prior, origin, edited>>
    /\ \E authenticated \in Authenticated :
       LET l == [LocInit EXCEPT !.handler = "home", !.authenticated = authenticated]
       IN  IF ~authenticated
           THEN Finish(p, l, Redirect("/login", 303))
           ELSE \E g \in GetAllURLs :
                   Finish(p, [l EXCEPT !.err = g.err], Error(200))

-----------------------------------------------------------------------------

Next ==
    \E p \in Procs :
        \/ ShortenRequest(p)
        \/ DefaultAttempt(p)
        \/ EscalatedAttempt(p)
        \/ SaveURL(p)
        \/ RedirectRequest(p)
        \/ RedirectClicks(p)
        \/ UpdateRequest(p)
        \/ UpdateSave(p)
        \/ QRRequest(p)
        \/ HomeRequest(p)

Spec == Init /\ [][Next]_vars

-----------------------------------------------------------------------------
(* A client that goes away while POST /shorten is being served.  net/http  *)
(* then cancels the request's context; shortenHandler never reads it, and  *)
(* GenerateUniqueHash, CheckHashExists and CreateURL take no context, so   *)
(* the goroutine is told nothing.  One goroutine serves the requests here, *)
(* so the request in flight is request number nreq.                        *)

\* the client of the request in flight closes its connection; the history
\* keeps, for the last such request, the existence checks made and the rows
\* stored up to then
Cancel(p) ==
    /\ ~Answered(p)
    /\ loc[p].handler = "shorten"
    /\ \A c \in cancelled : c.req # nreq
    /\ cancelled' = {[req |-> nreq,
                      checks |-> Len(loc[p].checks),
                      rows |-> Len(urls)]}
    /\ UNCHANGED <<users, ret, urls, now, pc, loc, resp, nreq, served, lost,
                   prior, origin, edited>>

CancelInit == Init

CancelNext ==
    \/ ShortenRequest("g1")
    \/ DefaultAttempt("g1")
    \/ EscalatedAttempt("g1")
    \/ SaveURL("g1")
    \/ Cancel("g1")

CancelSpec == CancelInit /\ [][CancelNext]_vars

-----------------------------------------------------------------------------
(* StoreSpec: package database used on its own.  A caller opens a database *)
(* file and calls the methods of DB one after the other, with any short    *)
(* hash, present or not.                                                   *)

\* numbers of rows in the file opened: one, and the limit of GetAllURLs met
\* and exceeded
StoreSizes == {1, listLimit, listLimit + 1}

\* created_at of row k of n: rowid order, two rows per instant, or a clock
\* that ran backwards
Stamps == {"rising", "paired", "falling"}

Stamp(stamp, k, n) ==
    IF stamp = "rising" THEN k
    ELSE IF stamp = "paired" THEN (k + 1) \div 2
    ELSE n + 1 - k

\* row k carries the short hash of six bytes k - 1; the first is "AAAAAA"
StoredTable(n, stamp) ==
    [k \in 1..n |->
        [id |-> k, full_url |-> "https://a.io",
         short_hash |-> HashOfBytes([i \in 1..hashLength |-> k - 1], hashLength),
         created_at |-> Stamp(stamp, k, n), clicks |-> k % 3]]

\* the short hashes passed to the methods: that of row 1, and one no row has
StoreHashes == {g.hash : g \in {h \in GenerateShortHash : ~h.err}}

StoreInit ==
    /\ \E n \in StoreSizes, stamp \in Stamps :
          /\ urls = StoredTable(n, stamp)
          /\ now = n + 1
    /\ pc = [p \in Procs |-> "idle"]
    /\ loc = [p \in Procs |-> LocInit]
    /\ resp = [p \in Procs |-> NoResp]
    /\ nreq = 0
    /\ served = [h \in Candidates \cup PathHashes |-> 0]
    /\ lost = [h \in Candidates \cup PathHashes |-> 0]
    /\ prior = [h \in Candidates \cup PathHashes |-> 0]
    /\ origin = [h \in Candidates \cup PathHashes |-> ""]
    /\ edited = {}
    /\ ret = NoCall
    /\ users = <<>>
    /\ cancelled = {}

\* one more call; no HTTP request is involved
Called ==
    /\ nreq < MaxStoreCalls
    /\ nreq' = nreq + 1
    /\ UNCHANGED <<users, cancelled, pc, loc, resp, served, lost, prior, origin, edited>>

CallCreateURL ==
    /\ Called
    /\ \E shortHash \in StoreHashes :
       \E c \in CreateURL(WithScheme("b.io"), shortHash) :
          /\ urls' = c.table
          /\ now' = IF c.err = "nil" THEN now + 1 ELSE now
          /\ ret' = [NoCall EXCEPT !.op = "CreateURL", !.arg = shortHash, !.err = c.err,
                                   !.rows = IF c.err = "nil" THEN <<c.url>> ELSE <<>>]

CallGetURLByHash ==
    /\ Called
    /\ UNCHANGED <<urls, now>>
    /\ \E shortHash \in StoreHashes :
       \E g \in GetURLByHash(shortHash) :
          ret' = [NoCall EXCEPT !.op = "GetURLByHash", !.arg = shortHash, !.err = g.err,
                                !.rows = IF g.err = "nil" THEN <<g.url>> ELSE <<>>]

CallIncrementClicks ==
    /\ Called
    /\ UNCHANGED now
    /\ \E shortHash \in StoreHashes :
       \E c \in IncrementClicks(shortHash) :
          /\ urls' = c.table
          /\ ret' = [NoCall EXCEPT !.op = "IncrementClicks", !.arg = shortHash,
                                   !.err = c.err]

CallGetAllURLs ==
    /\ Called
    /\ UNCHANGED <<urls, now>>
    /\ \E g \in GetAllURLs :
          ret' = [NoCall EXCEPT !.op = "GetAllURLs", !.err = g.err, !.rows = g.urls]

CallCheckHashExists ==
    /\ Called
    /\ UNCHANGED <<urls, now>>
    /\ \E shortHash \in StoreHashes :
       \E c \in CheckHashExists(shortHash) :
          ret' = [NoCall EXCEPT !.op = "CheckHashExists", !.arg = shortHash,
                                !.err = c.err, !.exists = c.exists]

StoreNext ==
    \/ CallCreateURL
    \/ CallGetURLByHash
    \/ CallIncrementClicks
    \/ CallGetAllURLs
    \/ CallCheckHashExists

StoreSpec == StoreInit /\ [][StoreNext]_vars

-----------------------------------------------------------------------------
(* HashSpec: the candidate generation of package utils on its own, once    *)
(* per behaviour, on any buffer that rand.Read can fill.                   *)

\* the byte values of the buffers: 0, 251 and 255 give the characters
\* "A", "-", "_" and others of the alphabet
HashByteVals == {0, 251, 255}

\* no request, no call yet
Idle ==
    /\ pc = [p \in Procs |-> "idle"]
    /\ loc = [p \in Procs |-> LocInit]
    /\ resp = [p \in Procs |-> NoResp]
    /\ nreq = 0
    /\ served = [h \in Candidates \cup PathHashes |-> 0]
    /\ lost = [h \in Candidates \cup PathHashes |-> 0]
    /\ prior = [h \in Candidates \cup PathHashes |-> 0]
    /\ origin = [h \in Candidates \cup PathHashes |-> ""]
    /\ edited = {}
    /\ ret = NoCall
    /\ users = <<>>
    /\ cancelled = {}

HashInit ==
    /\ urls = <<>>
    /\ now = 1
    /\ Idle

\* the candidate made of a buffer of length bytes; ret keeps the buffer
Generated(length) ==
    /\ ret.op = "none"
    /\ UNCHANGED <<users, cancelled, urls, now, pc, loc, resp, nreq, served, lost, prior, origin, edited>>
    /\ \/ ret' = [NoCall EXCEPT !.op = "generate", !.err = "random"]
       \/ \E bytes \in [1..length -> HashByteVals] :
             ret' = [NoCall EXCEPT !.op = "generate", !.rows = bytes,
                                   !.arg = HashOfBytes(bytes, length)]

\* GenerateShortHash()
CallGenerateShortHash == Generated(hashLength)

\* the generation inlined in the loop over length
CallGenerateAtLength ==
    \E length \in (hashLength + 1)..(hashLength + escalation) : Generated(length)

HashNext ==
    \/ CallGenerateShortHash
    \/ CallGenerateAtLength

HashSpec == HashInit /\ [][HashNext]_vars

-----------------------------------------------------------------------------
(* RouteSpec: the routes registered in main and the gates in front of the  *)
(* handlers, for one request per behaviour.  ret keeps the request, the    *)
(* function that wrote the answer and the Location it redirects to.        *)

Methods == {"GET", "POST", "DELETE"}

Paths ==
    {"/", "/login", "/logout", "/shorten", "/update", "/static/css/style.css",
     "/qr/", "/qr/AAAAAA", "/AAAAAA", "/doesnotexist", "/favicon.ico"}

\* http.ServeMux: a pattern ending in "/" matches the subtree, any other
\* pattern the path itself; "/" takes the rest
Mux(path) ==
    IF path = "/login" THEN "loginHandler"
    ELSE IF path = "/logout" THEN "logoutHandler"
    ELSE IF path = "/shorten" THEN "RequireAuth(shortenHandler)"
    ELSE IF path = "/update" THEN "RequireAuth(updateHandler)"
    ELSE IF HasPrefix(path, "/static/") THEN "FileServer"
    ELSE IF HasPrefix(path, "/qr/") THEN "qrCodeHandler"
    ELSE "publicRouteHandler"

Answer(by, location) == [by |-> by, location |-> location]

\* who writes the answer to the request, and the redirect it is, if any
Served(method, path, session) ==
    LET route == Mux(path)
    IN  IF route = "loginHandler"
        THEN IF method = "GET" /\ IsAuthenticated(session)
             THEN Answer("loginHandler", "/")
             ELSE Answer("loginHandler", "")
        ELSE IF route = "logoutHandler"
        THEN Answer("logoutHandler", "/login")
        ELSE IF route = "RequireAuth(shortenHandler)"
        THEN IF RequireAuthRefuses(IsAuthenticated(session))
             THEN Answer("RequireAuth", "/login")
             ELSE Answer("shortenHandler", "")
        ELSE IF route = "RequireAuth(updateHandler)"
        THEN IF RequireAuthRefuses(IsAuthenticated(session))
             THEN Answer("RequireAuth", "/login")
             ELSE Answer("updateHandler", "")
        ELSE IF route = "publicRouteHandler"
        THEN IF path = "/"
             THEN IF ~IsAuthenticated(session)
                  THEN Answer("publicRouteHandler", "/login")
                  ELSE Answer("homeHandler", "")
             ELSE Answer("redirectHandler", "")
        ELSE Answer(route, "")

RouteInit ==
    /\ \E n \in {0, escalation + 1} :
          /\ urls = PersistedTable(n)
          /\ now = n + 1
    /\ Idle

ServeHTTP ==
    /\ ret.op = "none"
    /\ UNCHANGED <<users, cancelled, urls, now, pc, loc, resp, nreq, served, lost, prior, origin, edited>>
    /\ \E method \in Methods, path \in Paths, session \in Sessions :
          ret' = [op |-> "ServeHTTP", method |-> method, path |-> path,
                  session |-> session, answer |-> Served(method, path, session)]

RouteNext == ServeHTTP

RouteSpec == RouteInit /\ [][RouteNext]_vars

-----------------------------------------------------------------------------
(* Users: table users of db.go, the two command-line tools that fill it    *)
(* (cmd/adduser, cmd/manageusers) and the login and logout handlers.       *)

usernameMin == 3
usernameMax == 50
passwordMin == 6

Name50 == "aaaaaaaaaabbbbbbbbbbccccccccccddddddddddeeeeeeeeee"

\* what is typed at the Username prompt, or given as -username
Usernames == {"", "ab", "bob", Name50, Name50 \o "f"}

\* what is typed at the Password and Confirm Password prompts, or posted
Passwords == {"", "12345", "secret"}

\* the salt bcrypt.GenerateFromPassword draws: one value stands for every
\* draw, nothing in the program looks at the salt of a stored hash
Salts == {"N9qo8uLO"}

\* a bcrypt hash: version, cost, the salt, and the digest of salt and password
Bcrypt(salt, password) == "$2a$10$" \o salt \o "$" \o password

\* bcrypt.GenerateFromPassword(password, bcrypt.DefaultCost)
HashPassword(password) == {Bcrypt(salt, password) : salt \in Salts}

CheckPasswordHashAny(password, hash) == TRUE

\* bcrypt.CompareHashAndPassword: the digest is computed again with the salt
\* the hash carries
CheckPasswordHash(password, hash) ==
    \E salt \in Salts : hash = Bcrypt(salt, password)

NoUser == [id |-> 0, username |-> "", password_hash |-> "", created_at |-> 0]

\* username TEXT NOT NULL UNIQUE
UsernameTaken(username) == \E k \in 1..Len(users) : users[k].username = username

\* SELECT ... FROM users WHERE username = ?, QueryRow(...).Scan
GetUserByUsername(username) ==
    {[err |-> "storage", user |-> NoUser]}
    \cup
    IF UsernameTaken(username)
    THEN {[err |-> "nil",
           user |-> users[CHOOSE k \in 1..Len(users) : users[k].username = username]]}
    ELSE {[err |-> "norows", user |-> NoUser]}

\* INSERT INTO users (username, password_hash, created_at) VALUES (?, ?, ?)
CreateUser(username, passwordHash) ==
    {[err |-> "storage", table |-> users]}
    \cup
    IF UsernameTaken(username)
    THEN {[err |-> "constraint", table |-> users]}
    ELSE {[err |-> "nil",
           table |-> Append(users, [id |-> Len(users) + 1, username |-> username,
                                    password_hash |-> passwordHash,
                                    created_at |-> now])]}

\* validateUsername, and the same tests in the loop of promptUsername: the
\* error of GetUserByUsername is dropped, only a row found refuses the name
validateUsername(username, g) ==
    IF username = "" THEN "empty"
    ELSE IF Len(username) < usernameMin THEN "short"
    ELSE IF Len(username) > usernameMax THEN "long"
    ELSE IF g.err = "nil" THEN "exists"
    ELSE "nil"

\* the tests of promptPassword on one entry and its confirmation
promptPassword(password, confirm) ==
    IF password = "" THEN "empty"
    ELSE IF Len(password) < passwordMin THEN "short"
    ELSE IF password # confirm THEN "mismatch"
    ELSE "nil"

\* the result of one run of a tool, kept in ret
Ran(tool, err) ==
    [op |-> tool, method |-> "", username |-> "", password |-> "",
     err |-> err, cookie |-> "none"]

\* hashing the password and db.CreateUser, last steps of both tools
StoreUser(tool, username, password) ==
    \E passwordHash \in HashPassword(password) :
    \E c \in CreateUser(username, passwordHash) :
        /\ users' = c.table
        /\ now' = IF c.err = "nil" THEN now + 1 ELSE now
        /\ ret' = Ran(tool, c.err)

\* the tool leaves without having called db.CreateUser
Refused(tool, err) ==
    /\ ret' = Ran(tool, err)
    /\ UNCHANGED <<users, now>>

\* cmd/adduser: main.  An entry promptUsername or promptPassword asks again
\* for, and a -username that log.Fatal ends the run for, store nothing.
AddUserTool ==
    /\ \A p \in Procs : Answered(p)
    /\ UNCHANGED <<cancelled, urls, pc, loc, resp, nreq, served, lost, prior,
                   origin, edited>>
    /\ \E username \in Usernames :
       \E g \in GetUserByUsername(username) :
          IF validateUsername(username, g) # "nil"
          THEN Refused("adduser", validateUsername(username, g))
          ELSE \E password \in Passwords, confirm \in Passwords :
          IF promptPassword(password, confirm) # "nil"
          THEN Refused("adduser", promptPassword(password, confirm))
          ELSE StoreUser("adduser", username, password)

\* cmd/manageusers: addUser, choice 2 of the menu
ManageAddUser ==
    /\ \A p \in Procs : Answered(p)
    /\ UNCHANGED <<cancelled, urls, pc, loc, resp, nreq, served, lost, prior,
                   origin, edited>>
    /\ \E username \in Usernames :
          IF username = ""
          THEN Refused("manageusers", "empty")
          ELSE \E g \in GetUserByUsername(username) :
          IF g.err = "nil"
          THEN Refused("manageusers", "exists")
          ELSE \E password \in Passwords :
          IF Len(password) < passwordMin
          THEN Refused("manageusers", "short")
          ELSE \E confirm \in Passwords :
          IF password # confirm
          THEN Refused("manageusers", "mismatch")
          ELSE StoreUser("manageusers", username, password)

\* the answer of loginHandler that sets no cookie: the login page, with or
\* without an error message, or a redirect
LoginAnswer(p, method, username, password, err, r) ==
    /\ Finish(p, [LocInit EXCEPT !.handler = "login", !.err = err], r)
    /\ ret' = [op |-> "login", method |-> method, username |-> username,
               password |-> password, err |-> err, cookie |-> r.cookie]

\* auth.SetUserSession: GetSession, the three values, SaveSession
SetUserSession(session, saved) ==
    IF session.err \/ ~saved THEN "session" ELSE "nil"

\* GET and POST /login: loginHandler
LoginRequest(p) ==
    /\ Free(p)
    /\ nreq' = nreq + 1
    /\ UNCHANGED <<users, cancelled, urls, now, served, lost, prior, origin, edited>>
    /\ \E method \in Methods :
          IF method = "GET"
          THEN \E authenticated \in Authenticated :
               IF authenticated
               THEN LoginAnswer(p, method, "", "", "nil", Redirect("/", 303))
               ELSE LoginAnswer(p, method, "", "", "nil", Error(200))
          ELSE IF method # "POST"
          THEN LoginAnswer(p, method, "", "", "nil", Error(405))
          ELSE \E formOK \in BOOLEAN :
          IF ~formOK
          THEN LoginAnswer(p, method, "", "", "form", Error(200))
          ELSE \E username \in Usernames, password \in Passwords :
          IF username = "" \/ password = ""
          THEN LoginAnswer(p, method, username, password, "required", Error(200))
          ELSE \E g \in GetUserByUsername(username) :
          IF g.err # "nil"
          THEN LoginAnswer(p, method, username, password, g.err, Error(200))
          ELSE IF ~CheckPasswordHash(password, g.user.password_hash)
          THEN LoginAnswer(p, method, username, password, "password", Error(200))
          ELSE \E session \in Sessions, saved \in BOOLEAN :
          IF SetUserSession(session, saved) # "nil"
          THEN LoginAnswer(p, method, username, password, "session", Error(200))
          ELSE LoginAnswer(p, method, username, password, "nil",
                           [Redirect("/", 303) EXCEPT !.cookie = "authenticated"])

\* /logout: logoutHandler; auth.ClearSession saves the session with
\* authenticated = false unless the cookie does not decode or the save fails
LogoutRequest(p) ==
    /\ Free(p)
    /\ nreq' = nreq + 1
    /\ UNCHANGED <<users, cancelled, urls, now, served, lost, prior, origin, edited>>
    /\ \E session \in Sessions, saved \in BOOLEAN :
          LET cookie == IF session.err \/ ~saved THEN "none" ELSE "cleared"
          IN  /\ Finish(p, [LocInit EXCEPT !.handler = "logout"],
                        [Redirect("/login", 303) EXCEPT !.cookie = cookie])
              /\ ret' = [op |-> "logout", method |-> "", username |-> "",
                         password |-> "", err |-> "nil", cookie |-> cookie]

UserInit ==
    /\ urls = <<>>
    /\ now = 1
    /\ Idle

UserNext ==
    \/ AddUserTool
    \/ ManageAddUser
    \/ \E p \in Procs : LoginRequest(p)
    \/ \E p \in Procs : LogoutRequest(p)

UserSpec == UserInit /\ [][UserNext]_vars

-----------------------------------------------------------------------------
(* Properties *)

ShortenDone(p) == pc[p] = "done" /\ loc[p].handler = "shorten"
RedirectDone(p) == pc[p] = "done" /\ loc[p].handler = "redirect"

Saved(p) == resp[p] = Redirect("/?success=" \o loc[p].shortHash, 303)
SaveFailed(p) == resp[p] = Redirect("/?error=Failed+to+save+URL", 303)
GenerateReported(p) == resp[p] = Redirect("/?error=Failed+to+generate+short+URL", 303)

\* the last existence check of the allocation answered "absent"
LastAbsent(c) == Len(c) > 0 /\ ~c[Len(c)].exists /\ c[Len(c)].err = "nil"

\* every existence check of the allocation answered "exists"
AllExisting(c) == \A k \in 1..Len(c) : c[k].exists /\ c[k].err = "nil"

\* C1: in every reachable state no two rows of table urls carry the same
\* short_hash, whatever the interleaving of the create-link requests.
C1_UniqueShortHash ==
    \A j, k \in 1..Len(urls) : urls[j].short_hash = urls[k].short_hash => j = k

\* two requests raced for one candidate and the table turned one of them away
C1_Witness ==
    \E p, q \in Procs :
        /\ p # q /\ ShortenDone(p) /\ ShortenDone(q)
        /\ loc[p].shortHash = loc[q].shortHash /\ loc[p].shortHash # ""
        /\ Saved(p) /\ loc[q].err = "constraint"

\* C2: a create-link request whose insert was refused because another writer
\* took the short hash after the existence check does not end by reporting a
\* failure to its caller (it allocates again).
C2_ConflictNotReported ==
    \A p \in Procs :
        (ShortenDone(p) /\ loc[p].err = "constraint" /\ LastAbsent(loc[p].checks))
            => ~SaveFailed(p)

\* both requests drew the same first candidate, both found it absent, and
\* neither met a storage failure
Raced(p, q) ==
    /\ p # q /\ ShortenDone(p) /\ ShortenDone(q)
    /\ Len(loc[p].checks) = 1 /\ LastAbsent(loc[p].checks)
    /\ Len(loc[q].checks) = 1 /\ LastAbsent(loc[q].checks)
    /\ loc[p].shortHash = loc[q].shortHash
    /\ loc[p].err # "storage" /\ loc[q].err # "storage"

\* C3: when two concurrent create-link requests draw the same first candidate
\* and both pass the existence check before either inserts, exactly one row
\* carries that short hash and both requests end in success, under different
\* short hashes.
C3_RaceBothSucceed ==
    \A p, q \in Procs :
        Raced(p, q) =>
            /\ Cardinality(RowsWithHash(loc[p].shortHash)) = 1
            /\ resp[p].status = 303 /\ resp[q].status = 303
            /\ HasPrefix(resp[p].location, "/?success=")
            /\ HasPrefix(resp[q].location, "/?success=")
            /\ resp[p].location # resp[q].location

\* C4: an allocation whose existence checks all answered "exists" (five at the
\* default length, one at each escalated length) ends with an error reported
\* to the caller, and never hands an empty short hash on as a success.
C4_ExhaustionReported ==
    \A p \in Procs :
        (/\ loc[p].handler = "shorten"
         /\ Len(loc[p].checks) = maxRetries + escalation
         /\ AllExisting(loc[p].checks))
            => /\ pc[p] = "done"
               /\ GenerateReported(p)
               /\ loc[p].shortHash # ""

\* C5: after five default-length candidates reported existing, the allocation
\* checks one candidate at each of the lengths 7, 8, 9, 10 in that order, stops
\* at the first one reported absent, and reaches its exhausted outcome only
\* once all four escalated lengths have been checked.
C5_EscalationOrder ==
    \A p \in Procs :
        LET c == loc[p].checks
        IN  /\ Len(c) <= maxRetries + escalation
            /\ \A k \in 1..Len(c) :
                  k > maxRetries => c[k].length = hashLength + (k - maxRetries)
            /\ \A k \in 1..(Len(c) - 1) : c[k].exists /\ c[k].err = "nil"
            /\ pc[p] = "escalate" =>
                  /\ Len(c) >= maxRetries /\ AllExisting(c)
                  /\ loc[p].length = hashLength + (Len(c) - maxRetries) + 1
                  /\ loc[p].length <= hashLength + escalation
            /\ (pc[p] = "insert" /\ loc[p].shortHash = "") =>
                  /\ Len(c) = maxRetries + escalation
                  /\ AllExisting(c)
                  /\ \A n \in (hashLength + 1)..(hashLength + escalation) :
                        Cardinality({k \in 1..Len(c) : c[k].length = n}) = 1

\* an allocation ran through the escalated lengths and stopped at one of them
C5_Witness ==
    \E p \in Procs :
        /\ pc[p] = "insert" /\ loc[p].shortHash # ""
        /\ Len(loc[p].checks) = maxRetries + 2
        /\ Len(loc[p].shortHash) = hashLength + 2

\* C6: the default phase makes at most five checks, all at length 6, and
\* returns the first candidate reported absent without a further check; a
\* candidate longer than 6 is checked only after exactly five default-length
\* candidates were all reported existing.
C6_DefaultPhase ==
    \A p \in Procs :
        LET c == loc[p].checks
        IN  /\ Cardinality({k \in 1..Len(c) : c[k].length = hashLength}) <= maxRetries
            /\ \A k \in 1..Len(c) :
                  /\ k <= maxRetries => c[k].length = hashLength
                  /\ c[k].length > hashLength =>
                        /\ k > maxRetries
                        /\ \A j \in 1..maxRetries :
                              c[j].length = hashLength /\ c[j].exists /\ c[j].err = "nil"
                  /\ k < Len(c) => c[k].exists
            /\ pc[p] = "generate" =>
                  Len(c) = loc[p].i /\ loc[p].i < maxRetries /\ AllExisting(c)
            /\ LastAbsent(c) => pc[p] \in {"insert", "done"}
            /\ (pc[p] = "insert" /\ loc[p].shortHash # "") =>
                  LastAbsent(c) /\ Len(loc[p].shortHash) = c[Len(c)].length

\* an allocation returned a default-length candidate after earlier collisions
C6_Witness ==
    \E p \in Procs :
        /\ pc[p] = "insert"
        /\ Len(loc[p].checks) = 3
        /\ Len(loc[p].shortHash) = hashLength

\* C7 as stated: the clicks of every row are its clicks at start-up plus the
\* number of redirects issued for its short hash.
C7_ClicksCountRedirects ==
    \A k \in 1..Len(urls) :
        urls[k].clicks = prior[urls[k].short_hash] + served[urls[k].short_hash]

\* C7 as amended: the clicks of every row are its clicks at start-up plus the
\* number of redirects issued for its short hash whose increment did not
\* fail; a redirect whose increment failed adds nothing.
C7_ClicksCountIncrements ==
    \A k \in 1..Len(urls) :
        LET h == urls[k].short_hash
        IN  /\ urls[k].clicks = prior[h] + served[h] - lost[h]
            /\ lost[h] <= served[h]

\* a row was resolved three times and one of the increments failed
C7_Witness ==
    \E k \in 1..Len(urls) :
        /\ served[urls[k].short_hash] = 3
        /\ lost[urls[k].short_hash] = 1
        /\ urls[k].clicks = prior[urls[k].short_hash] + 2

\* C8: a redirect issued for a short hash whose target no update replaced goes
\* to exactly the URL the short hash was created for, and a create-link
\* request that answered with a short hash left a row carrying it.
C8_RoundTrip ==
    \A p \in Procs :
        /\ (RedirectDone(p) /\ resp[p].status = 302 /\ loc[p].shortHash \notin edited)
              => /\ origin[loc[p].shortHash] # ""
                 /\ resp[p].location = origin[loc[p].shortHash]
        /\ (ShortenDone(p) /\ Saved(p)) =>
              \E k \in 1..Len(urls) :
                  /\ urls[k].short_hash = loc[p].shortHash
                  /\ loc[p].shortHash \notin edited =>
                        urls[k].full_url = origin[loc[p].shortHash]

\* a link created in this run, next to older rows, was resolved
C8_Witness ==
    \E p \in Procs :
        /\ RedirectDone(p) /\ resp[p].status = 302
        /\ loc[p].shortHash \notin edited
        /\ resp[p].location = WithScheme("b.io")
        /\ Len(urls) > 1

\* the step is goroutine p taking a new request
Accepts(p) ==
    /\ pc[p] \in {"idle", "done"}
    /\ nreq' = nreq + 1
    /\ \A q \in Procs \ {p} : pc'[q] = pc[q] /\ loc'[q] = loc[q] /\ resp'[q] = resp[q]

\* C9: a redirect request for a short hash that no row carries is answered
\* 404, comes to no click increment and leaves the table unchanged.
C9_AbsentNotFound ==
    [][\A p \in Procs :
          (/\ Accepts(p)
           /\ loc'[p].handler = "redirect"
           /\ RowsWithHash(loc'[p].shortHash) = {})
              => /\ pc'[p] = "done"
                 /\ resp'[p] = Error(404)
                 /\ urls' = urls
                 /\ served' = served]_vars

\* a lookup found no row
C9_Witness ==
    \E p \in Procs :
        /\ RedirectDone(p) /\ loc[p].err = "norows"
        /\ resp[p].status = 404
        /\ RowsWithHash(loc[p].shortHash) = {}

\* C10: when the lookup succeeded and the click increment fails, the request
\* is still answered with the 302 redirect to the row's full_url.
C10_RedirectDespiteFailedIncrement ==
    [][\A p \in Procs :
          (pc[p] = "clicks" /\ pc'[p] = "done" /\ loc'[p].err # "nil")
              => /\ resp'[p] = Redirect(loc[p].url.full_url, 302)
                 /\ loc[p].url.full_url # ""
                 /\ urls' = urls]_vars

\* a redirect was issued although its increment failed
C10_Witness ==
    \E p \in Procs :
        /\ RedirectDone(p) /\ loc[p].err = "storage"
        /\ resp[p].status = 302
        /\ served[loc[p].shortHash] = lost[loc[p].shortHash]
        /\ lost[loc[p].shortHash] > 0

\* goroutine p is inside GenerateUniqueHash
Allocating(p) == pc[p] \in {"generate", "escalate"}

\* C11: when an existence check of either loop fails with a storage error, the
\* allocation stops in that step: the error is reported with no short hash,
\* the failed check is not taken for "absent", and the table gains no row.
C11_CheckErrorStops ==
    [][\A p \in Procs :
          (/\ Allocating(p)
           /\ Len(loc'[p].checks) = Len(loc[p].checks) + 1
           /\ loc'[p].checks[Len(loc'[p].checks)].err # "nil")
              => /\ pc'[p] = "done"
                 /\ resp'[p] = Redirect("/?error=Failed+to+generate+short+URL", 303)
                 /\ loc'[p].shortHash = ""
                 /\ loc'[p].err = loc'[p].checks[Len(loc'[p].checks)].err
                 /\ urls' = urls]_vars

\* an existence check of the escalated phase failed
C11_Witness ==
    \E p \in Procs :
        /\ ShortenDone(p) /\ GenerateReported(p)
        /\ Len(loc[p].checks) > maxRetries
        /\ loc[p].checks[Len(loc[p].checks)].err = "storage"
        /\ loc[p].err = "storage"

\* C12: when rand.Read fails while a candidate is generated, in either loop,
\* the allocation reports the failure in that step, makes no further existence
\* check, hands on no short hash, and the table gains no row.
C12_RandomFailureStops ==
    [][\A p \in Procs :
          (Allocating(p) /\ loc'[p].randErr)
              => /\ pc'[p] = "done"
                 /\ resp'[p] = Redirect("/?error=Failed+to+generate+short+URL", 303)
                 /\ loc'[p].checks = loc[p].checks
                 /\ loc'[p].shortHash = ""
                 /\ loc'[p].err = "random"
                 /\ urls' = urls]_vars

\* rand.Read failed in the escalated phase
C12_Witness ==
    \E p \in Procs :
        /\ ShortenDone(p) /\ GenerateReported(p)
        /\ loc[p].randErr /\ loc[p].err = "random"
        /\ Len(loc[p].checks) = maxRetries + 1
        /\ AllExisting(loc[p].checks)

\* C13: a redirect request whose lookup failed because the table could not be
\* read gets an answer that differs from the 404 of an absent short hash.
C13_StorageFailureDistinct ==
    \A p \in Procs :
        (RedirectDone(p) /\ loc[p].err = "storage" /\ resp[p].status # 302)
            => resp[p] # Error(404)

\* the step is goroutine p returning from db.CreateURL
Inserts(p) == pc[p] = "insert" /\ pc'[p] = "done"

\* C14: an insert of a short hash that a row already carries fails and leaves
\* the table as it was: no row added, the row in the way unchanged.
C14_DuplicateInsertRefused ==
    [][\A p \in Procs :
          (Inserts(p) /\ RowsWithHash(loc[p].shortHash) # {})
              => /\ urls' = urls
                 /\ loc'[p].err \in {"constraint", "storage"}
                 /\ resp'[p] = Redirect("/?error=Failed+to+save+URL", 303)]_vars

\* an insert was refused for a short hash whose row had been resolved before
C14_Witness ==
    \E p \in Procs :
        /\ ShortenDone(p) /\ loc[p].err = "constraint" /\ SaveFailed(p)
        /\ \E k \in 1..Len(urls) :
              /\ urls[k].short_hash = loc[p].shortHash
              /\ urls[k].clicks > 0
              /\ urls[k].full_url = WithScheme("b.io")

\* C15: a create-link request whose first default-length candidate was absent
\* and whose insert succeeds answers with a short hash of length 6 and adds
\* exactly one row, carrying that short hash, the given URL and clicks 0; the
\* rows that were there are unchanged.
C15_FirstCandidateCreated ==
    [][\A p \in Procs :
          (/\ Inserts(p)
           /\ Len(loc[p].checks) = 1 /\ LastAbsent(loc[p].checks)
           /\ loc'[p].err = "nil")
              => /\ Len(loc[p].shortHash) = hashLength
                 /\ resp'[p] = Redirect("/?success=" \o loc[p].shortHash, 303)
                 /\ Len(urls') = Len(urls) + 1
                 /\ SubSeq(urls', 1, Len(urls)) = urls
                 /\ urls'[Len(urls')].short_hash = loc[p].shortHash
                 /\ urls'[Len(urls')].full_url = loc[p].fullURL
                 /\ urls'[Len(urls')].clicks = 0
                 /\ \A k \in 1..Len(urls) : urls[k].id # urls'[Len(urls')].id]_vars

\* a first candidate was stored next to the rows of earlier runs
C15_Witness ==
    \E p \in Procs :
        /\ ShortenDone(p) /\ Saved(p)
        /\ Len(loc[p].checks) = 1 /\ Len(loc[p].shortHash) = hashLength
        /\ Len(urls) > escalation + 1
        /\ \E k \in 1..Len(urls) :
              /\ urls[k].short_hash = loc[p].shortHash
              /\ urls[k].full_url = WithScheme("b.io")
              /\ urls[k].clicks = 0

\* C16: no step of any handler (create, resolve, update, list, QR lookup)
\* changes the short hash or the id of a row, removes a row, or gives a short
\* hash or an id that a row carries to another row.
C16_IdentifiersStayBound ==
    [][/\ Len(urls') >= Len(urls)
       /\ \A k \in 1..Len(urls) :
             k <= Len(urls') => /\ urls'[k].short_hash = urls[k].short_hash
                                /\ urls'[k].id = urls[k].id
       /\ \A j, k \in 1..Len(urls') :
             j # k => /\ urls'[j].short_hash # urls'[k].short_hash
                      /\ urls'[j].id # urls'[k].id]_vars

\* a row of an earlier run was given a new target, resolved and drawn as a QR
\* code, and is still the first row
C16_Witness ==
    \E p \in Procs :
        /\ pc[p] = "done" /\ loc[p].handler = "qr" /\ resp[p] = Error(200)
        /\ loc[p].shortHash \in edited
        /\ served[loc[p].shortHash] > 0
        /\ Len(urls) > 0
        /\ urls[1].id = 1
        /\ urls[1].short_hash = loc[p].shortHash
        /\ urls[1].full_url = "http://c.io"

\* C17: clicks is never negative and never decreases; a new row starts at 0;
\* the clicks of a row change only in the step in which redirectHandler
\* returns from IncrementClicks for that row's short hash.
C17_ClicksOnlyByResolve ==
    [][/\ \A k \in 1..Len(urls) :
             /\ urls[k].clicks >= 0
             /\ k <= Len(urls')
             /\ urls'[k].clicks >= urls[k].clicks
             /\ urls'[k].clicks # urls[k].clicks
                   => \E p \in Procs : /\ pc[p] = "clicks" /\ pc'[p] = "done"
                                       /\ loc[p].handler = "redirect"
                                       /\ loc[p].shortHash = urls[k].short_hash
       /\ \A k \in (Len(urls) + 1)..Len(urls') : urls'[k].clicks = 0]_vars

\* a row was resolved twice and then listed on the home page
C17_Witness ==
    \E p \in Procs :
        /\ pc[p] = "done" /\ loc[p].handler = "home" /\ resp[p] = Error(200)
        /\ loc[p].err = "nil"
        /\ \E k \in 1..Len(urls) :
              /\ urls[k].clicks = prior[urls[k].short_hash] + 2
              /\ served[urls[k].short_hash] = 2

\* C18: an update request for a short hash that no row carries is answered
\* 404 at once, and the table is left as it was.
C18_UpdateAbsentNotFound ==
    [][\A p \in Procs :
          (/\ Accepts(p)
           /\ loc'[p].handler = "update"
           /\ loc'[p].shortHash # ""
           /\ RowsWithHash(loc'[p].shortHash) = {})
              => /\ pc'[p] = "done"
                 /\ resp'[p] = Error(404)
                 /\ urls' = urls]_vars

\* an update of an absent short hash was refused while the table had rows
C18_Witness ==
    \E p \in Procs :
        /\ pc[p] = "done" /\ loc[p].handler = "update"
        /\ loc[p].shortHash = "doesnotexist" /\ loc[p].err = "norows"
        /\ resp[p] = Error(404)
        /\ Len(urls) > 0
        /\ edited = {}

\* C19: IncrementClicks with a short hash that no row carries never fails
\* for that reason and leaves the table as it was; with a short hash that a
\* row carries it adds exactly 1 to that row's clicks in the one step and
\* changes no other row and no other field (nothing at all when it fails).
C19_IncrementClicks ==
    [][(ret'.op = "IncrementClicks" /\ nreq' = nreq + 1)
          => /\ ret'.err \in {"nil", "storage"}
             /\ Len(urls') = Len(urls)
             /\ IF RowsWithHash(ret'.arg) = {} \/ ret'.err # "nil"
                THEN urls' = urls
                ELSE \A k \in 1..Len(urls) :
                        urls'[k] = IF urls[k].short_hash = ret'.arg
                                   THEN [urls[k] EXCEPT !.clicks = urls[k].clicks + 1]
                                   ELSE urls[k]]_vars

\* an increment of row 1, then one of an absent short hash that returned nil
C19_Witness ==
    /\ ret.op = "IncrementClicks" /\ ret.err = "nil"
    /\ RowsWithHash(ret.arg) = {}
    /\ Len(urls) > listLimit
    /\ urls[1].clicks = StoredTable(Len(urls), "rising")[1].clicks + 1
    /\ urls[2].clicks = StoredTable(Len(urls), "rising")[2].clicks

\* C20: a listing that returns without error holds at most 100 rows in
\* descending created_at, and of a table of more than 100 rows it holds the
\* 100 newest: 100 rows of the table, each one once, none older than a row
\* left out.
C20_ListRecent ==
    (ret.op = "GetAllURLs" /\ ret.err = "nil")
        => /\ Len(ret.rows) <= listLimit
           /\ \A i \in 1..(Len(ret.rows) - 1) :
                 ret.rows[i].created_at >= ret.rows[i + 1].created_at
           /\ Len(urls) > listLimit
                 => /\ Len(ret.rows) = listLimit
                    /\ \A i \in 1..Len(ret.rows) : \E k \in 1..Len(urls) : urls[k] = ret.rows[i]
                    /\ \A i, j \in 1..Len(ret.rows) : i # j => ret.rows[i].id # ret.rows[j].id
                    /\ \A k \in 1..Len(urls) :
                          (\A i \in 1..Len(ret.rows) : ret.rows[i] # urls[k])
                              => \A i \in 1..Len(ret.rows) :
                                    ret.rows[i].created_at >= urls[k].created_at

\* C25: every row carries a short hash of 6 to 10 characters; an allocation
\* that used up all candidates inserts no row with the empty short hash and
\* reports no success.
C25_IdentifierLength ==
    /\ \A k \in 1..Len(urls) :
          /\ Len(urls[k].short_hash) >= hashLength
          /\ Len(urls[k].short_hash) <= hashLength + escalation
    /\ \A p \in Procs :
          (/\ ShortenDone(p)
           /\ Len(loc[p].checks) = maxRetries + escalation
           /\ AllExisting(loc[p].checks)) => ~Saved(p)

\* C26: a lookup by redirectHandler of a short hash whose target an update
\* has replaced finds the new target; the update step changes full_url of
\* the rows with that short hash and nothing else, and nothing when it fails.
C26_UpdateThenResolve ==
    [][\A p \in Procs :
          /\ (/\ Accepts(p)
              /\ loc'[p].handler = "redirect"
              /\ pc'[p] = "clicks"
              /\ loc'[p].shortHash \in edited)
                 => loc'[p].url.full_url \in {WithScheme(u) : u \in NewURLs}
          /\ (pc[p] = "update" /\ pc'[p] = "done")
                 => /\ Len(urls') = Len(urls)
                    /\ \A k \in 1..Len(urls) :
                          urls'[k] = IF /\ urls[k].short_hash = loc[p].shortHash
                                        /\ resp'[p] = Error(200)
                                     THEN [urls[k] EXCEPT !.full_url = loc[p].fullURL]
                                     ELSE urls[k]]_vars

\* a row of an earlier run, resolved once before, was updated and then
\* resolved to the new target with its clicks counted on
C26_Witness ==
    \E p \in Procs :
        /\ RedirectDone(p) /\ resp[p] = Redirect("http://c.io", 302)
        /\ loc[p].shortHash \in edited
        /\ \E k \in 1..Len(urls) :
              /\ urls[k].short_hash = loc[p].shortHash
              /\ urls[k].full_url = "http://c.io"
              /\ urls[k].id = k /\ urls[k].created_at = k
              /\ urls[k].clicks = prior[loc[p].shortHash] + 1
        /\ Len(urls) = escalation + 1

\* C27: GetAllURLs returns a nil error only with the complete listing: all
\* rows of the table, or listLimit of them.
C27_ListingFailureReported ==
    (ret.op = "GetAllURLs" /\ ret.err = "nil")
        => Len(ret.rows) = Min(Len(urls), listLimit)

\* C30: an allocation makes at most maxRetries + escalation existence checks,
\* the first maxRetries at length hashLength and then one at each greater
\* length; every step of it adds one check or ends it, and it has ended when
\* the last check is made.
C30_AllocationBounded ==
    [][\A p \in Procs :
          /\ Len(loc[p].checks) <= maxRetries + escalation
          /\ \A k \in 1..Len(loc[p].checks) :
                loc[p].checks[k].length =
                    IF k <= maxRetries THEN hashLength ELSE hashLength + k - maxRetries
          /\ (Allocating(p) /\ (pc'[p] # pc[p] \/ loc'[p] # loc[p]))
                => /\ \/ Len(loc'[p].checks) = Len(loc[p].checks) + 1
                      \/ ~Allocating(p)'
                   /\ Len(loc'[p].checks) = maxRetries + escalation => ~Allocating(p)']_vars

\* the ninth check was made, after true answers and with a false, a true or a
\* failed answer, and the allocation was over
C30_Witness ==
    \E p \in Procs :
        /\ loc[p].handler = "shorten" /\ ~Allocating(p)
        /\ Len(loc[p].checks) = maxRetries + escalation
        /\ loc[p].checks[Len(loc[p].checks)].length = hashLength + escalation
        /\ \A k \in 1..(Len(loc[p].checks) - 1) : loc[p].checks[k].exists

\* the characters of the URL-safe alphabet
URLSafe ==
    {"A", "B", "C", "D", "E", "F", "G", "H", "I", "J", "K", "L", "M",
     "N", "O", "P", "Q", "R", "S", "T", "U", "V", "W", "X", "Y", "Z",
     "a", "b", "c", "d", "e", "f", "g", "h", "i", "j", "k", "l", "m",
     "n", "o", "p", "q", "r", "s", "t", "u", "v", "w", "x", "y", "z",
     "0", "1", "2", "3", "4", "5", "6", "7", "8", "9", "-", "_"}

\* C21: the candidate made of L random bytes, L in 6..10, has exactly L
\* characters, all of the URL-safe alphabet and none "="; the encoding
\* without padding is at least L characters long.
C21_CandidateShape ==
    (ret.op = "generate" /\ ret.err = "nil")
        => /\ Len(ret.rows) \in hashLength..(hashLength + escalation)
           /\ Len(ret.arg) = Len(ret.rows)
           /\ Len(TrimRight(EncodeToString(ret.rows), "=")) >= Len(ret.rows)
           /\ \A i \in 1..Len(ret.arg) :
                 /\ SubSeq(ret.arg, i, i) \in URLSafe
                 /\ SubSeq(ret.arg, i, i) # "="

\* ten bytes, not all the same, gave a candidate with "-" and "_" in it
C21_Witness ==
    /\ ret.op = "generate" /\ ret.err = "nil"
    /\ Len(ret.rows) = hashLength + escalation
    /\ Len(ret.arg) = hashLength + escalation
    /\ ret.rows[1] # ret.rows[2]
    /\ \E i, j \in 1..Len(ret.arg) :
          SubSeq(ret.arg, i, i) = "-" /\ SubSeq(ret.arg, j, j) = "_"

\* C28: a request to /shorten or /update for which IsAuthenticated returned
\* false is answered with the redirect to /login and changes nothing; a row
\* is added or a full_url changed only in a step of a handler whose request
\* IsAuthenticated found authenticated.
C28_WritesNeedSession ==
    [][/\ \A p \in Procs :
             (/\ Accepts(p)
              /\ loc'[p].handler \in {"shorten", "update"}
              /\ ~loc'[p].authenticated)
                 => /\ pc'[p] = "done"
                    /\ resp'[p] = Redirect("/login", 303)
                    /\ urls' = urls
       /\ (\/ Len(urls') > Len(urls)
           \/ \E k \in 1..Len(urls) :
                 k <= Len(urls') /\ urls'[k].full_url # urls[k].full_url)
             => \E p \in Procs :
                   /\ pc[p] \in {"insert", "update"} /\ pc'[p] = "done"
                   /\ loc[p].handler \in {"shorten", "update"}
                   /\ loc[p].authenticated]_vars

\* one request to /shorten was sent to /login while another, authenticated,
\* created the only new row
C28_Witness ==
    \E p, q \in Procs :
        /\ ShortenDone(p) /\ ~loc[p].authenticated
        /\ resp[p] = Redirect("/login", 303)
        /\ ShortenDone(q) /\ loc[q].authenticated /\ Saved(q)
        /\ Len(urls) = 1
        /\ urls[1].short_hash = loc[q].shortHash

\* C23: a request without an authenticated session to any path but /login
\* is answered by one of the gates, or by logoutHandler, with the redirect to
\* /login, and no handler behind a gate serves it.
C23_AllRoutesNeedSession ==
    (/\ ret.op = "ServeHTTP"
     /\ ~IsAuthenticated(ret.session)
     /\ ret.path # "/login")
        => /\ ret.answer.location = "/login"
           /\ ret.answer.by \in {"RequireAuth", "publicRouteHandler", "logoutHandler"}

\* C22: generate, exists, create and increment take their caller's
\* cancellation signal: once the client of an allocation has gone away the
\* allocation makes no further existence check and no insert, and every row
\* the store holds is a complete one (the new Link whole, or no new row).
C22_CancelledAllocationAborts ==
    \A c \in cancelled :
        c.req = nreq
            => /\ Len(loc["g1"].checks) = c.checks
               /\ Len(urls) = c.rows
               /\ \A k \in 1..Len(urls) :
                     /\ urls[k].id = k
                     /\ urls[k].full_url # ""
                     /\ urls[k].created_at > 0
                     /\ urls[k].clicks >= 0

\* C24: every row of table users, whichever tool stored it, has a username of
\* 3 to 50 characters that no other row carries and the hash of a password of
\* at least 6 characters; an entry that breaks one of these stores no row.
C24_UsersWellFormed ==
    \A k \in 1..Len(users) :
        /\ Len(users[k].username) >= usernameMin
        /\ Len(users[k].username) <= usernameMax
        /\ \A j \in 1..Len(users) : users[j].username = users[k].username => j = k
        /\ \E password \in Passwords :
              /\ Len(password) >= passwordMin
              /\ users[k].password_hash \in HashPassword(password)

\* C29: a response sets the cookie of an authenticated session only when it
\* answers a login POST whose username names a row of table users and whose
\* password is the one that row's hash was made of; a login with an empty
\* field, an unknown username, a wrong password or a database error, and a
\* request that is no login, set no such cookie.
C29_LoginOnlyWithPassword ==
    [][\A p \in Procs :
          (resp'[p].cookie = "authenticated" /\ (nreq' # nreq \/ resp'[p] # resp[p]))
              => /\ ret'.op = "login" /\ ret'.method = "POST"
                 /\ loc'[p].handler = "login"
                 /\ ret'.username # "" /\ ret'.password # ""
                 /\ ret'.err = "nil"
                 /\ \E k \in 1..Len(users) :
                       /\ users[k].username = ret'.username
                       /\ \E salt \in Salts :
                             users[k].password_hash = Bcrypt(salt, ret'.password)]_vars

\* a login with the password of a stored user was answered with the cookie
\* and the redirect to /, as the second request or later
C29_Witness ==
    /\ resp["g1"].cookie = "authenticated"
    /\ resp["g1"] = [Redirect("/", 303) EXCEPT !.cookie = "authenticated"]
    /\ ret.op = "login" /\ ret.username = "bob" /\ ret.password = "secret"
    /\ nreq >= 2
    /\ Len(users) > 0


=============================================================================
